---- MODULE Spec2Model ----
(***************************************************************************)
(* Pub/Sub listener that turns every delivered message into a GitHub       *)
(* issue: src/shit_poster/pubsub_listener.py (callback, the listener),     *)
(* src/shit_poster/main.py (process_message, main) and                     *)
(* src/shit_poster/issue_poster.py (GitHubIssuePoster, post_github_issue). *)
(*                                                                         *)
(* Text is a sequence of tokens: a literal fragment of a format string is  *)
(* one token, a data string is one token per character, so "contains       *)
(* verbatim" is "is a contiguous subsequence of".                          *)
(***************************************************************************)
EXTENDS Integers, Sequences, FiniteSets, TLC

\* ------------------------------------------------------------------ bounds
\* Number of logical messages on the subscription.
NumMsgs == 2
\* Longest subject / timestamp string of the formatter's inputs.
MaxStrLen == 2

Msgs == 1..NumMsgs

\* ------------------------------------------------------------ data domains
\* Characters of data strings: two plain ones and the double quote, which
\* json.dumps escapes.
Chars == {"a", "b", "\""}

RECURSIVE StringsOfLen(_)
StringsOfLen(n) ==
    IF n = 0 THEN {<<>>}
    ELSE {<<c>> \o s : c \in Chars, s \in StringsOfLen(n - 1)}

Strings == UNION {StringsOfLen(n) : n \in 0..MaxStrLen}

\* Python's None, and "no exception in flight".
None == [type |-> "None"]
NoExc == [cls |-> "none", msg |-> <<>>]

\* A JSON object: its items in document order, string values only.
Obj(items) == [type |-> "object", items |-> items]

Item(k, v) == <<k, v>>

\* JSON documents that are not objects.
NonObjects ==
    { [type |-> "array"], [type |-> "string"], [type |-> "number"],
      [type |-> "bool"], [type |-> "null"] }

\* message.data: empty bytes, bytes that are not UTF-8, UTF-8 text that is
\* not JSON, or the UTF-8 encoding of a JSON document.
EmptyData == [bytes |-> "empty", value |-> None]
BadUtf8Data == [bytes |-> "invalid_utf8", value |-> None]
BadJsonData == [bytes |-> "invalid_json", value |-> None]
JsonData(v) == [bytes |-> "json", value |-> v]

\* message.attributes: key/value pairs in iteration order.
AttributeMaps ==
    { <<>>,
      << <<"severity", <<"a">>>> >>,
      << <<"severity", <<"a", "\"">>>>, <<"source", <<"b">>>> >> }

\* ---------------------------------------------------- exception hierarchy
\* The classes an exception of class cls is an instance of.
Bases(cls) ==
    CASE cls = "JSONDecodeError" -> {"JSONDecodeError", "ValueError", "Exception"}
      [] cls = "UnicodeDecodeError" -> {"UnicodeDecodeError", "ValueError", "Exception"}
      [] cls = "ValueError" -> {"ValueError", "Exception"}
      [] cls = "AttributeError" -> {"AttributeError", "Exception"}
      [] cls = "GithubException" -> {"GithubException", "Exception"}
      [] cls = "ConnectionError" -> {"ConnectionError", "OSError", "Exception"}
      [] OTHER -> {}

IsInstance(exc, cls) == cls \in Bases(exc.cls)

Raise(cls, msg) == [cls |-> cls, msg |-> msg]

\* ------------------------------------------------------------------- text
RECURSIVE Flatten(_)
Flatten(ss) == IF ss = <<>> THEN <<>> ELSE Head(ss) \o Flatten(Tail(ss))

\* s occurs in text as a contiguous run of tokens.
Contains(text, s) ==
    \E i \in 0..(Len(text) - Len(s)) :
        \A j \in 1..Len(s) : text[i + j] = s[j]

CountToken(text, tok) == Cardinality({i \in 1..Len(text) : text[i] = tok})

\* json.dumps of a string (ensure_ascii=True): quote and backslash are
\* escaped with a backslash, other printable ASCII is copied.
EscapeChar(c) ==
    IF c = "\"" THEN <<"\\", "\"">>
    ELSE IF c = "\\" THEN <<"\\", "\\">>
    ELSE <<c>>

DumpsString(s) ==
    <<"\"">> \o Flatten([i \in 1..Len(s) |-> EscapeChar(s[i])]) \o <<"\"">>

\* One item of json.dumps(obj, indent=2): two spaces, the key, ": ", the value.
DumpsItem(it) == <<"  ", "\"", it[1], "\"", ": ">> \o DumpsString(it[2])

RECURSIVE DumpsItems(_)
DumpsItems(items) ==
    IF Len(items) = 0 THEN <<>>
    ELSE IF Len(items) = 1 THEN DumpsItem(items[1])
    ELSE DumpsItem(items[1]) \o <<",", "\n">> \o DumpsItems(Tail(items))

\* json.dumps(data, indent=2).
Dumps(data) ==
    CASE data.type = "object" ->
            IF data.items = <<>> THEN <<"{}">>
            ELSE <<"{", "\n">> \o DumpsItems(data.items) \o <<"\n", "}">>
      [] data.type = "array" -> <<"[]">>
      [] data.type = "string" -> DumpsString(<<"a">>)
      [] data.type = "number" -> <<"7">>
      [] data.type = "bool" -> <<"true">>
      [] OTHER -> <<"null">>

\* json.loads(message.data.decode("utf-8")): the document, or the exception.
Loads(data) ==
    CASE data.bytes = "empty" ->
            [exc |-> Raise("JSONDecodeError", <<"Expecting value">>), value |-> None]
      [] data.bytes = "invalid_utf8" ->
            [exc |-> Raise("UnicodeDecodeError", <<"invalid start byte">>), value |-> None]
      [] data.bytes = "invalid_json" ->
            [exc |-> Raise("JSONDecodeError", <<"Expecting value">>), value |-> None]
      [] OTHER -> [exc |-> NoExc, value |-> data.value]

\* `if message.data:`: bytes are true unless empty.
BytesTruthy(data) == data.bytes # "empty"

HasKey(items, k) == \E i \in 1..Len(items) : items[i][1] = k

ValueOf(items, k) == items[CHOOSE i \in 1..Len(items) : items[i][1] = k][2]

\* data.get(key, default): only a dict has .get.
DictGet(data, k, default) ==
    IF data.type # "object"
    THEN [exc |-> Raise("AttributeError", <<"object has no attribute 'get'">>), value |-> <<>>]
    ELSE [exc |-> NoExc,
          value |-> IF HasKey(data.items, k) THEN ValueOf(data.items, k) ELSE default]

\* ------------------------------------------------------- ticket formatting
Ticket(title, body) == [title |-> title, body |-> body]

NoTicket == Ticket(<<>>, <<>>)

\* The bulleted attribute lines of the body, one per attribute.
RECURSIVE AttributeLines(_)
AttributeLines(attrs) ==
    IF attrs = <<>> THEN <<>>
    ELSE <<"* **", attrs[1][1], ":** ">> \o attrs[1][2] \o <<"\n">>
         \o AttributeLines(Tail(attrs))

AttributeSection(attrs) ==
    IF attrs # <<>>
    THEN <<"### Message Attributes\n\n">> \o AttributeLines(attrs)
    ELSE <<>>

\* The three backquotes that open and close the fenced block.
Fence == "[fence]"

TitlePrefix == <<"PubSub Message: ">>

IssueTitle(subject) == TitlePrefix \o subject

\* The body without the attribute section.
IssueBodyNoAttributes(timestamp, data, attrs) ==
    <<"## PubSub Message Received\n\n">>
    \o <<"**Timestamp:** ">> \o timestamp \o <<"\n\n">>
    \o <<"### Message Content\n\n", Fence, "json\n">>
    \o Dumps(data)
    \o <<"\n", Fence, "\n\n">>

IssueBody(timestamp, data, attrs) ==
    <<"## PubSub Message Received\n\n">>
    \o <<"**Timestamp:** ">> \o timestamp \o <<"\n\n">>
    \o <<"### Message Content\n\n", Fence, "json\n">>
    \o Dumps(data)
    \o <<"\n", Fence, "\n\n">>
    \o AttributeSection(attrs)

\* The title and body callback builds from the decoded data and the
\* attributes, or the exception the building raises.
FormatIssue(data, attrs) ==
    LET subject == DictGet(data, "subject", <<"New Message">>)
        timestamp == DictGet(data, "timestamp", <<"N/A">>)
    IN  IF subject.exc # NoExc THEN [exc |-> subject.exc, ticket |-> NoTicket]
        ELSE IF timestamp.exc # NoExc THEN [exc |-> timestamp.exc, ticket |-> NoTicket]
        ELSE [exc |-> NoExc,
              ticket |-> Ticket(IssueTitle(subject.value),
                                IssueBody(timestamp.value, data, attrs))]

\* ---------------------------------------------------------- the tracker
IssueNumbers == {41, 42}

\* What one request to the GitHub API can come back with: success, an API
\* level rejection (GithubException: bad credentials, rate limit, 404), or a
\* transport failure, which surfaces as a requests ConnectionError.
Failures ==
    { [kind |-> "GithubException", number |-> 0, reason |-> "rate limited"],
      [kind |-> "ConnectionError", number |-> 0, reason |-> "connection refused"] }

\* The answers to create_issue, and to get_repo.
CreateOutcomes ==
    {[kind |-> "ok", number |-> n, reason |-> ""] : n \in IssueNumbers} \cup Failures

RepoOutcomes == {[kind |-> "ok", number |-> 0, reason |-> ""]} \cup Failures

\* The process environment: which of the settings are present.
Envs ==
    [PROJECT_ID : BOOLEAN, SUBSCRIPTION_ID : BOOLEAN,
     GITHUB_TOKEN : BOOLEAN, GITHUB_REPOSITORY : BOOLEAN]

\* Optional list arguments (labels, assignees).
NoList == [type |-> "None", elems |-> <<>>]
List(elems) == [type |-> "list", elems |-> elems]
ListArgs == {NoList, List(<<>>), List(<<"bug">>)}

\* Python's `x or []`.
OrEmpty(x) == IF x.type = "None" \/ x.elems = <<>> THEN <<>> ELSE x.elems

\* A request as the tracker saw it: the request and what it answered.
Answered(req, out) == [op |-> req.op, req |-> req, out |-> out]

NoResult == [success |-> FALSE, issue_number |-> 0, title |-> <<>>, error |-> ""]

\* GitHubIssuePoster.__init__: the exception it raises (NoExc when the poster
\* is built) and the requests it sent.
GitHubIssuePosterInit(e, repoOut) ==
    IF ~e.GITHUB_TOKEN
    THEN [exc |-> Raise("ValueError", <<"GITHUB_TOKEN not found in .env file">>),
          calls |-> <<>>]
    ELSE IF ~e.GITHUB_REPOSITORY
    THEN [exc |-> Raise("ValueError", <<"GITHUB_REPOSITORY not found in .env file">>),
          calls |-> <<>>]
    ELSE [exc |-> CASE repoOut.kind = "ok" -> NoExc
                    [] repoOut.kind = "GithubException" ->
                         Raise("ValueError", <<"Error accessing repository: ", repoOut.reason>>)
                    [] OTHER -> Raise(repoOut.kind, <<repoOut.reason>>),
          calls |-> << Answered([op |-> "get_repo"], repoOut) >>]

\* The except clause of post_issue.
PostIssueCatches(exc) == IsInstance(exc, "GithubException")

\* The request post_issue sends.
CreateIssueRequest(title, body, labels, assignees) ==
    [op |-> "create_issue", title |-> title, body |-> body,
     labels |-> OrEmpty(labels), assignees |-> OrEmpty(assignees)]

\* post_issue sending the request again after a failure.
PostIssueRetrying(title, body, labels, assignees, createOut) ==
    LET req == CreateIssueRequest(title, body, labels, assignees)
    IN  IF createOut.kind = "ok"
        THEN [exc |-> NoExc, calls |-> <<Answered(req, createOut)>>,
              ret |-> [success |-> TRUE, issue_number |-> createOut.number,
                       title |-> title, error |-> ""]]
        ELSE [exc |-> NoExc,
              calls |-> <<Answered(req, createOut), Answered(req, createOut)>>,
              ret |-> [success |-> FALSE, issue_number |-> 0,
                       title |-> <<>>, error |-> createOut.reason]]

\* GitHubIssuePoster.post_issue: the result dictionary, or the exception that
\* leaves it, and the requests it sent.
PostIssue(title, body, labels, assignees, createOut) ==
    LET req == CreateIssueRequest(title, body, labels, assignees)
        raised == IF createOut.kind = "ok" THEN NoExc
                  ELSE Raise(createOut.kind, <<createOut.reason>>)
    IN  IF raised = NoExc
        THEN [exc |-> NoExc, calls |-> <<Answered(req, createOut)>>,
              ret |-> [success |-> TRUE, issue_number |-> createOut.number,
                       title |-> title, error |-> ""]]
        ELSE IF PostIssueCatches(raised)
        THEN [exc |-> NoExc, calls |-> <<Answered(req, createOut)>>,
              ret |-> [success |-> FALSE, issue_number |-> 0,
                       title |-> <<>>, error |-> createOut.reason]]
        ELSE [exc |-> raised, calls |-> <<Answered(req, createOut)>>, ret |-> NoResult]

\* One print: which statement printed, the tokens printed, and the issue
\* number printed with them (0 when the line has none).
LogEntry(kind, text) == [kind |-> kind, text |-> text, num |-> 0]

LogNumber(kind, text, n) == [kind |-> kind, text |-> text, num |-> n]

\* post_github_issue with `except GithubException` in place of
\* `except ValueError`.
PostGithubIssueCatchesGithub(exc) == IsInstance(exc, "GithubException")

\* The except clause of post_github_issue.
PostGithubIssueCatches(exc) == IsInstance(exc, "ValueError")

\* post_github_issue: ok is TRUE when it returns the result dictionary and
\* FALSE when it returns None; exc is the exception that leaves it.
PostGithubIssue(e, title, message, labels, assignees, repoOut, createOut) ==
    LET init == GitHubIssuePosterInit(e, repoOut)
        post == PostIssue(title, message, labels, assignees, createOut)
    IN  IF init.exc # NoExc
        THEN IF PostGithubIssueCatches(init.exc)
             THEN [exc |-> NoExc, ok |-> FALSE, ret |-> NoResult, calls |-> init.calls,
                   log |-> << LogEntry("poster_error", <<"Error: ">> \o init.exc.msg) >>]
             ELSE [exc |-> init.exc, ok |-> FALSE, ret |-> NoResult,
                   calls |-> init.calls, log |-> <<>>]
        ELSE IF post.exc # NoExc
        THEN IF PostGithubIssueCatches(post.exc)
             THEN [exc |-> NoExc, ok |-> FALSE, ret |-> NoResult,
                   calls |-> init.calls \o post.calls,
                   log |-> << LogEntry("poster_error", <<"Error: ">> \o post.exc.msg) >>]
             ELSE [exc |-> post.exc, ok |-> FALSE, ret |-> NoResult,
                   calls |-> init.calls \o post.calls, log |-> <<>>]
        ELSE IF post.ret.success
        THEN [exc |-> NoExc, ok |-> TRUE, ret |-> post.ret,
              calls |-> init.calls \o post.calls,
              log |-> << LogNumber("issue_created", <<"Issue #">>, post.ret.issue_number),
                         LogEntry("issue_title", <<"Title: ">> \o post.ret.title),
                         LogNumber("issue_url", <<"URL: ">>, post.ret.issue_number) >>]
        ELSE [exc |-> NoExc, ok |-> FALSE, ret |-> NoResult,
              calls |-> init.calls \o post.calls,
              log |-> << LogEntry("issue_failed",
                                  <<"Failed to create issue: ", post.ret.error>>) >>]

\* ------------------------------------------------------------------ state
VARIABLES
    env,         \* the process environment (.env)
    entry,       \* the entry point run: "start_listener" (callback) or "main" (process_message)
    run,         \* the listener: "init", "listening" or "stopped"
    stopReason,  \* why the listener stopped
    message,     \* message[m]: data and attributes of logical message m
    broker,      \* broker[m]: "pending", "outstanding" or "acked"
    pc,          \* pc[m]: where the handler invocation for m stands
    exc,         \* exc[m]: the exception the invocation is handling
    acks,        \* acks[m]: calls of message.ack() in the current invocation
    nacks,       \* nacks[m]: calls of message.nack() in the current invocation
    log,         \* log[m]: what the current invocation printed
    calls,       \* calls[m]: the requests the current invocation sent to the tracker
    posted,      \* posted[m]: the arguments of the current invocation's publisher calls
    fmt,         \* the formatter applied to one input on its own
    pub,         \* the publisher called on its own
    sup,         \* the listener's main thread followed statement by statement
    sort         \* one call of bubble_sort

vars == <<env, entry, run, stopReason, message, broker, pc, exc, acks, nacks,
          log, calls, posted, fmt, pub, sup, sort>>

listenerVars == <<env, entry, run, stopReason>>
unitVars == <<fmt, pub, sup, sort>>

\* The messages of the pipeline: one of every kind of payload.
PipelineMessages ==
    { [data |-> EmptyData, attributes |-> <<>>],
      [data |-> BadUtf8Data, attributes |-> <<>>],
      [data |-> BadJsonData, attributes |-> << <<"severity", <<"a">>>> >>],
      [data |-> JsonData([type |-> "array"]), attributes |-> <<>>],
      [data |-> JsonData(Obj(<<>>)), attributes |-> <<>>],
      [data |-> JsonData(Obj(<< Item("subject", <<"a", "\"">>), Item("timestamp", <<"b">>) >>)),
       attributes |-> << <<"severity", <<"a">>>> >>] }

FmtIdle == [stage |-> "idle"]
PubIdle == [stage |-> "idle"]
SupIdle == [pc |-> "idle"]
SortIdle == [pc |-> "idle"]

Init ==
    /\ env \in Envs
    /\ entry \in {"start_listener", "main"}
    /\ run = "init"
    /\ stopReason = "none"
    /\ message \in [Msgs -> PipelineMessages]
    /\ broker = [m \in Msgs |-> "pending"]
    /\ pc = [m \in Msgs |-> "idle"]
    /\ exc = [m \in Msgs |-> NoExc]
    /\ acks = [m \in Msgs |-> 0]
    /\ nacks = [m \in Msgs |-> 0]
    /\ log = [m \in Msgs |-> <<>>]
    /\ calls = [m \in Msgs |-> <<>>]
    /\ posted = [m \in Msgs |-> <<>>]
    /\ fmt = FmtIdle
    /\ pub = PubIdle
    /\ sup = SupIdle
    /\ sort = SortIdle

\* ---------------------------------------------------------------- listener
\* start_listener / main up to the subscribe call: the broker identifiers are
\* required, the tracker settings are not.
StartListener ==
    /\ run = "init"
    /\ IF env.PROJECT_ID /\ env.SUBSCRIPTION_ID
       THEN run' = "listening" /\ UNCHANGED stopReason
       ELSE run' = "stopped" /\ stopReason' = "config"
    /\ UNCHANGED <<env, entry, message, broker, pc, exc, acks, nacks, log, calls, posted>>
    /\ UNCHANGED unitVars

\* KeyboardInterrupt while the listener waits on streaming_pull_future.result().
Interrupt ==
    /\ run = "listening"
    /\ run' = "stopped"
    /\ stopReason' = "interrupt"
    /\ UNCHANGED <<env, entry, message, broker, pc, exc, acks, nacks, log, calls, posted>>
    /\ UNCHANGED unitVars

\* The streaming pull fails: result() raises an Exception.
StreamFault ==
    /\ run = "listening"
    /\ run' = "stopped"
    /\ stopReason' = "fault"
    /\ UNCHANGED <<env, entry, message, broker, pc, exc, acks, nacks, log, calls, posted>>
    /\ UNCHANGED unitVars

\* ------------------------------------------------------------ the handlers
\* callback with `except ValueError` in place of `except Exception`.
CallbackCatchesValueError(e) == IsInstance(e, "ValueError")

\* The except clause of callback, and of process_message.
CallbackCatches(e) == IsInstance(e, "Exception")

ProcessMessageCatches(e) == IsInstance(e, "Exception")

HandlerCatches(e) ==
    IF entry = "start_listener" THEN CallbackCatches(e) ELSE ProcessMessageCatches(e)

\* Where an exception raised inside the try block takes the handler.
AfterRaise(e) == IF HandlerCatches(e) THEN "except" ELSE "raised"

\* The broker hands message m to the handler, which prints the receipt line.
Deliver(m) ==
    /\ run = "listening"
    /\ broker[m] = "pending"
    /\ pc[m] = "idle"
    /\ broker' = [broker EXCEPT ![m] = "outstanding"]
    /\ pc' = [pc EXCEPT ![m] = "decode"]
    /\ exc' = [exc EXCEPT ![m] = NoExc]
    /\ acks' = [acks EXCEPT ![m] = 0]
    /\ nacks' = [nacks EXCEPT ![m] = 0]
    /\ log' = [log EXCEPT ![m] = << LogEntry("received", <<>>) >>]
    /\ calls' = [calls EXCEPT ![m] = <<>>]
    /\ posted' = [posted EXCEPT ![m] = <<>>]
    /\ UNCHANGED <<listenerVars, message, unitVars>>

\* callback, `if message.data:` and the json.loads / json.dumps lines.
CallbackDecode(m) ==
    /\ entry = "start_listener"
    /\ pc[m] = "decode"
    /\ LET d == message[m].data
           r == Loads(d)
       IN  IF ~BytesTruthy(d)
           THEN /\ pc' = [pc EXCEPT ![m] = "ack"]
                /\ UNCHANGED <<exc, log>>
           ELSE IF r.exc # NoExc
           THEN /\ pc' = [pc EXCEPT ![m] = AfterRaise(r.exc)]
                /\ exc' = [exc EXCEPT ![m] = r.exc]
                /\ UNCHANGED log
           ELSE /\ pc' = [pc EXCEPT ![m] = "format"]
                /\ log' = [log EXCEPT ![m] =
                             Append(@, LogEntry("data", <<"Message data: ">> \o Dumps(r.value)))]
                /\ UNCHANGED exc
    /\ UNCHANGED <<listenerVars, message, broker, acks, nacks, posted, calls, unitVars>>

\* callback, building issue_title and issue_body.
CallbackFormat(m) ==
    /\ entry = "start_listener"
    /\ pc[m] = "format"
    /\ LET f == FormatIssue(message[m].data.value, message[m].attributes)
       IN  IF f.exc # NoExc
           THEN /\ pc' = [pc EXCEPT ![m] = AfterRaise(f.exc)]
                /\ exc' = [exc EXCEPT ![m] = f.exc]
                /\ UNCHANGED log
           ELSE /\ pc' = [pc EXCEPT ![m] = "publish"]
                /\ log' = [log EXCEPT ![m] =
                             Append(@, LogEntry("creating",
                                 <<"Creating GitHub issue with title: ">> \o f.ticket.title))]
                /\ UNCHANGED exc
    /\ UNCHANGED <<listenerVars, message, broker, acks, nacks, posted, calls, unitVars>>

\* The arguments one call of the publisher is given: callback passes the title
\* and the body, process_message passes the decoded payload.
PublisherCall(title, text) == [title |-> title, message |-> text]

\* callback reporting every result as a failure.
CallbackReportFailed(r) == LogEntry("failed", <<"Failed to create GitHub issue">>)

\* What callback prints about the result of post_github_issue.
CallbackReport(r) ==
    IF r.ok /\ r.ret.success
    THEN LogNumber("success", <<"Successfully created GitHub issue #">>, r.ret.issue_number)
    ELSE LogEntry("failed", <<"Failed to create GitHub issue">>)

\* callback, the post_github_issue call and the report of its result.
CallbackPublish(m) ==
    /\ entry = "start_listener"
    /\ pc[m] = "publish"
    /\ \E repoOut \in RepoOutcomes, createOut \in CreateOutcomes :
        LET t == FormatIssue(message[m].data.value, message[m].attributes).ticket
            r == PostGithubIssue(env, t.title, t.body, NoList, NoList, repoOut, createOut)
        IN  /\ posted' = [posted EXCEPT ![m] = Append(@, PublisherCall(t.title, t.body))]
            /\ calls' = [calls EXCEPT ![m] = @ \o r.calls]
            /\ IF r.exc # NoExc
               THEN /\ pc' = [pc EXCEPT ![m] = AfterRaise(r.exc)]
                    /\ exc' = [exc EXCEPT ![m] = r.exc]
                    /\ log' = [log EXCEPT ![m] = @ \o r.log]
               ELSE /\ pc' = [pc EXCEPT ![m] = "ack"]
                    /\ log' = [log EXCEPT ![m] = Append(@ \o r.log, CallbackReport(r))]
                    /\ UNCHANGED exc
    /\ UNCHANGED <<listenerVars, message, broker, acks, nacks, unitVars>>

\* callback acknowledging through a variable shared by the handler threads:
\* the acknowledgement reaches every message that is outstanding.
CallbackAckShared(m) ==
    /\ entry = "start_listener"
    /\ pc[m] = "ack"
    /\ acks' = [x \in Msgs |-> IF x = m \/ broker[x] = "outstanding"
                                THEN acks[x] + 1 ELSE acks[x]]
    /\ broker' = [x \in Msgs |-> IF x = m \/ broker[x] = "outstanding"
                                  THEN "acked" ELSE broker[x]]
    /\ pc' = [pc EXCEPT ![m] = "done"]
    /\ UNCHANGED <<listenerVars, message, exc, log, calls, nacks, posted, unitVars>>

\* callback, message.ack() as the last statement of the try block.
CallbackAck(m) ==
    /\ entry = "start_listener"
    /\ pc[m] = "ack"
    /\ acks' = [acks EXCEPT ![m] = @ + 1]
    /\ broker' = [broker EXCEPT ![m] = "acked"]
    /\ pc' = [pc EXCEPT ![m] = "done"]
    /\ UNCHANGED <<listenerVars, message, exc, log, calls, nacks, posted, unitVars>>

\* callback, the except clause: it prints the error and returns.
CallbackExcept(m) ==
    /\ entry = "start_listener"
    /\ pc[m] = "except"
    /\ log' = [log EXCEPT ![m] =
                 Append(@, LogEntry("error", <<"Error processing message: ">> \o exc[m].msg))]
    /\ pc' = [pc EXCEPT ![m] = "done"]
    /\ UNCHANGED <<listenerVars, message, broker, exc, acks, nacks, posted, calls, unitVars>>

\* create_issue_from_message of the github_issue module, which main.py
\* imports: it formats the decoded data, publishes it, and returns the issue,
\* or nothing when the tracker rejects it; a transport failure leaves it as an
\* exception.
CreateIssueFromMessage(data, out) ==
    CASE out.kind = "ok" -> [exc |-> NoExc, issue |-> TRUE, number |-> out.number]
      [] out.kind = "GithubException" -> [exc |-> NoExc, issue |-> FALSE, number |-> 0]
      [] OTHER -> [exc |-> Raise(out.kind, <<out.reason>>), issue |-> FALSE, number |-> 0]

\* process_message, `if message.data:` with its else branch, and the
\* json.loads / json.dumps lines.
ProcessDecode(m) ==
    /\ entry = "main"
    /\ pc[m] = "decode"
    /\ LET d == message[m].data
           r == Loads(d)
       IN  IF ~BytesTruthy(d)
           THEN /\ pc' = [pc EXCEPT ![m] = "ack"]
                /\ log' = [log EXCEPT ![m] =
                             Append(@, LogEntry("empty", <<"Received empty message">>))]
                /\ UNCHANGED exc
           ELSE IF r.exc # NoExc
           THEN /\ pc' = [pc EXCEPT ![m] = AfterRaise(r.exc)]
                /\ exc' = [exc EXCEPT ![m] = r.exc]
                /\ UNCHANGED log
           ELSE /\ pc' = [pc EXCEPT ![m] = "publish"]
                /\ log' = [log EXCEPT ![m] =
                             Append(@, LogEntry("data", <<"Message data: ">> \o Dumps(r.value)))]
                /\ UNCHANGED exc
    /\ UNCHANGED <<listenerVars, message, broker, acks, nacks, posted, calls, unitVars>>

\* process_message, the create_issue_from_message call and the report.
ProcessCreate(m) ==
    /\ entry = "main"
    /\ pc[m] = "publish"
    /\ \E out \in CreateOutcomes :
        LET r == CreateIssueFromMessage(message[m].data.value, out)
        IN  /\ posted' = [posted EXCEPT ![m] =
                            Append(@, PublisherCall(<<>>, message[m].data.value))]
            /\ calls' = [calls EXCEPT ![m] =
                           Append(@, Answered([op |-> "create_issue_from_message"], out))]
            /\ IF r.exc # NoExc
               THEN /\ pc' = [pc EXCEPT ![m] = AfterRaise(r.exc)]
                    /\ exc' = [exc EXCEPT ![m] = r.exc]
                    /\ UNCHANGED log
               ELSE /\ pc' = [pc EXCEPT ![m] = "ack"]
                    /\ log' = [log EXCEPT ![m] = Append(@,
                                 IF r.issue
                                 THEN LogNumber("success", <<"Successfully created issue #">>, r.number)
                                 ELSE LogEntry("failed", <<"Failed to create issue from message data">>))]
                    /\ UNCHANGED exc
    /\ UNCHANGED <<listenerVars, message, broker, acks, nacks, unitVars>>

\* process_message, the message.ack() that ends each branch of the try block.
ProcessAck(m) ==
    /\ entry = "main"
    /\ pc[m] = "ack"
    /\ acks' = [acks EXCEPT ![m] = @ + 1]
    /\ broker' = [broker EXCEPT ![m] = "acked"]
    /\ pc' = [pc EXCEPT ![m] = "done"]
    /\ UNCHANGED <<listenerVars, message, exc, log, calls, nacks, posted, unitVars>>

\* process_message, the except clause: it prints the error and acknowledges.
ProcessExcept(m) ==
    /\ entry = "main"
    /\ pc[m] = "except"
    /\ log' = [log EXCEPT ![m] =
                 Append(@, LogEntry("error", <<"Error processing message: ">> \o exc[m].msg))]
    /\ acks' = [acks EXCEPT ![m] = @ + 1]
    /\ broker' = [broker EXCEPT ![m] = "acked"]
    /\ pc' = [pc EXCEPT ![m] = "done"]
    /\ UNCHANGED <<listenerVars, message, exc, nacks, posted, calls, unitVars>>

\* The broker redelivers a message whose handler ended without acknowledging.
Redeliver(m) ==
    /\ pc[m] \in {"done", "raised"}
    /\ broker[m] = "outstanding"
    /\ broker' = [broker EXCEPT ![m] = "pending"]
    /\ pc' = [pc EXCEPT ![m] = "idle"]
    /\ exc' = [exc EXCEPT ![m] = NoExc]
    /\ acks' = [acks EXCEPT ![m] = 0]
    /\ log' = [log EXCEPT ![m] = <<>>]
    /\ calls' = [calls EXCEPT ![m] = <<>>]
    /\ posted' = [posted EXCEPT ![m] = <<>>]
    /\ UNCHANGED <<listenerVars, message, nacks, unitVars>>

Next ==
    \/ StartListener
    \/ Interrupt
    \/ StreamFault
    \/ \E m \in Msgs : Deliver(m)
    \/ \E m \in Msgs : CallbackDecode(m)
    \/ \E m \in Msgs : CallbackFormat(m)
    \/ \E m \in Msgs : CallbackPublish(m)
    \/ \E m \in Msgs : CallbackAck(m)
    \/ \E m \in Msgs : CallbackExcept(m)
    \/ \E m \in Msgs : ProcessDecode(m)
    \/ \E m \in Msgs : ProcessCreate(m)
    \/ \E m \in Msgs : ProcessAck(m)
    \/ \E m \in Msgs : ProcessExcept(m)
    \/ \E m \in Msgs : Redeliver(m)

Spec == Init /\ [][Next]_vars

\* ------------------------------------------------- the formatter on its own
\* The JSON objects the formatter is applied to: subject and timestamp each
\* absent or any string, and possibly a further field.
OptionalItem(k) == {<<>>} \cup {<<Item(k, v)>> : v \in Strings}

FormatObjects ==
    {Obj(s \o t \o x) : s \in OptionalItem("subject"), t \in OptionalItem("timestamp"),
                        x \in {<<>>, <<Item("detail", <<"a">>)>>}}

FormatMessages ==
    [data : {JsonData(v) : v \in FormatObjects \cup NonObjects},
     attributes : AttributeMaps]

PipelineIdle ==
    /\ entry = "start_listener"
    /\ run = "init"
    /\ stopReason = "none"
    /\ message = [m \in Msgs |-> [data |-> EmptyData, attributes |-> <<>>]]
    /\ broker = [m \in Msgs |-> "pending"]
    /\ pc = [m \in Msgs |-> "idle"]
    /\ exc = [m \in Msgs |-> NoExc]
    /\ acks = [m \in Msgs |-> 0]
    /\ nacks = [m \in Msgs |-> 0]
    /\ log = [m \in Msgs |-> <<>>]
    /\ calls = [m \in Msgs |-> <<>>]
    /\ posted = [m \in Msgs |-> <<>>]

FormatInit ==
    /\ PipelineIdle
    /\ env = [PROJECT_ID |-> TRUE, SUBSCRIPTION_ID |-> TRUE,
              GITHUB_TOKEN |-> TRUE, GITHUB_REPOSITORY |-> TRUE]
    /\ fmt \in [stage : {"input"}, message : FormatMessages,
                out : {[exc |-> NoExc, ticket |-> NoTicket]}]
    /\ pub = PubIdle
    /\ sup = SupIdle
    /\ sort = SortIdle

\* callback's json.loads and formatting lines applied to one message.
FormatMessage ==
    /\ fmt.stage = "input"
    /\ fmt' = [fmt EXCEPT !.stage = "done",
                          !.out = FormatIssue(Loads(fmt.message.data).value,
                                              fmt.message.attributes)]
    /\ UNCHANGED <<env, entry, run, stopReason, message, broker, pc, exc, acks,
                   nacks, log, calls, posted, pub, sup, sort>>

FormatNext == FormatMessage

FormatSpec == FormatInit /\ [][FormatNext]_vars

\* ------------------------------------------------- the publisher on its own
SampleTickets ==
    { Ticket(IssueTitle(<<"a">>), IssueBody(<<"b">>, Obj(<<>>), <<>>)),
      Ticket(<<"Test Issue">>, <<"This is a test issue created by the issue_poster script.">>) }

NoOutcome ==
    [exc |-> NoExc, ok |-> FALSE, ret |-> NoResult, calls |-> <<>>, log |-> <<>>]

PublisherInit ==
    /\ PipelineIdle
    /\ env \in Envs
    /\ fmt = FmtIdle
    /\ pub \in [stage : {"input"}, ticket : SampleTickets, labels : ListArgs,
                assignees : ListArgs, r : {NoOutcome}]
    /\ sup = SupIdle
    /\ sort = SortIdle

\* One call of post_github_issue(title, message, labels, assignees).
PostGithubIssueCall ==
    /\ pub.stage = "input"
    /\ \E repoOut \in RepoOutcomes, createOut \in CreateOutcomes :
        pub' = [pub EXCEPT !.stage = "done",
                           !.r = PostGithubIssue(env, pub.ticket.title, pub.ticket.body,
                                                 pub.labels, pub.assignees, repoOut, createOut)]
    /\ UNCHANGED <<env, entry, run, stopReason, message, broker, pc, exc, acks,
                   nacks, log, calls, posted, fmt, sup, sort>>

PublisherNext == PostGithubIssueCall

PublisherSpec == PublisherInit /\ [][PublisherNext]_vars

\* ------------------------------------------- the listener's main thread
\* start_listener with listen_for_messages, and main, followed one statement
\* at a time: what was printed, the subscriber client, the streaming pull and
\* the status the run ends with.
RequiredPresentProjectOnly(e) == e.PROJECT_ID

RequiredPresent(e) == e.PROJECT_ID /\ e.SUBSCRIPTION_ID

\* The warnings about the tracker settings: start_listener warns about the
\* token and the repository, main about the token only.
TrackerWarnings(ep, e) ==
    (IF e.GITHUB_TOKEN THEN <<>> ELSE <<"WARNING: GITHUB_TOKEN">>)
    \o (IF ep = "main" \/ e.GITHUB_REPOSITORY THEN <<>> ELSE <<"WARNING: GITHUB_REPOSITORY">>)

\* How the entry point ends: start_listener returns True or False, main falls
\* off its end (status 0) or calls sys.exit(1); an exception nothing catches
\* ends either with that exception.
ReturnsNormally(ep) == IF ep = "main" THEN "0" ELSE "True"
ReturnsFailure(ep) == IF ep = "main" THEN "1" ELSE "False"
Uncaught == "KeyboardInterrupt"

SetupOutcomes == {"ok", "DefaultCredentialsError"}
SubscribeOutcomes == {"ok", "Exception"}

SupStart ==
    [pc |-> "validate", subscriber |-> "none", pull |-> "none", out |-> <<>>,
     status |-> "running", interrupted |-> FALSE, faulted |-> FALSE]

ListenerInit ==
    /\ env \in Envs
    /\ entry \in {"start_listener", "main"}
    /\ run = "init"
    /\ stopReason = "none"
    /\ message = [m \in Msgs |-> [data |-> EmptyData, attributes |-> <<>>]]
    /\ broker = [m \in Msgs |-> "pending"]
    /\ pc = [m \in Msgs |-> "idle"]
    /\ exc = [m \in Msgs |-> NoExc]
    /\ acks = [m \in Msgs |-> 0]
    /\ nacks = [m \in Msgs |-> 0]
    /\ log = [m \in Msgs |-> <<>>]
    /\ calls = [m \in Msgs |-> <<>>]
    /\ posted = [m \in Msgs |-> <<>>]
    /\ fmt = FmtIdle
    /\ pub = PubIdle
    /\ sup = SupStart
    /\ sort = SortIdle

supFrame == <<env, entry, run, stopReason, message, broker, pc, exc, acks, nacks,
              log, calls, posted, fmt, pub, sort>>

\* The checks of the broker identifiers and the warnings that follow them.
ValidateConfiguration ==
    /\ sup.pc = "validate"
    /\ IF RequiredPresent(env)
       THEN sup' = [sup EXCEPT !.pc = "setup",
                               !.out = @ \o TrackerWarnings(entry, env) \o <<"Starting">>]
       ELSE sup' = [sup EXCEPT !.pc = "exited",
                               !.out = Append(@, "ERROR: environment variable is required"),
                               !.status = ReturnsFailure(entry)]
    /\ UNCHANGED supFrame

\* The except Exception clause around the listener: it prints the error and
\* the run fails.
OuterExcept(s) ==
    [s EXCEPT !.pc = "exited", !.out = Append(@, "ERROR: "), !.status = ReturnsFailure(entry)]

\* setup_subscriber: the default credentials, then the client.
SetupSubscriber ==
    /\ sup.pc = "setup"
    /\ \E o \in SetupOutcomes :
        sup' = IF o = "ok"
               THEN [sup EXCEPT !.pc = "subscribe", !.subscriber = "open"]
               ELSE OuterExcept(sup)
    /\ UNCHANGED supFrame

\* subscriber.subscribe, called before the with block is entered.
Subscribe ==
    /\ sup.pc = "subscribe"
    /\ \E o \in SubscribeOutcomes :
        sup' = IF o = "ok"
               THEN [sup EXCEPT !.pc = "with", !.pull = "active",
                                !.out = Append(@, "Listening for messages")]
               ELSE OuterExcept(sup)
    /\ UNCHANGED supFrame

\* The with block and the try block inside it are entered.
EnterWith ==
    /\ sup.pc = "with"
    /\ sup' = [sup EXCEPT !.pc = "result"]
    /\ UNCHANGED supFrame

\* streaming_pull_future.result() raises what ended the stream.
ResultRaisesException ==
    /\ sup.pc = "result"
    /\ sup' = [sup EXCEPT !.pc = "fault_cancel", !.faulted = TRUE]
    /\ UNCHANGED supFrame

\* The interrupt arrives while the thread waits in result().
ResultRaisesKeyboardInterrupt ==
    /\ sup.pc = "result"
    /\ sup' = [sup EXCEPT !.pc = "interrupt_cancel", !.interrupted = TRUE]
    /\ UNCHANGED supFrame

\* streaming_pull_future.cancel() in either except clause.
Cancel ==
    /\ sup.pc \in {"interrupt_cancel", "fault_cancel"}
    /\ sup' = [sup EXCEPT !.pc = IF @ = "interrupt_cancel" THEN "interrupt_print"
                                                           ELSE "fault_print",
                          !.pull = "cancelled"]
    /\ UNCHANGED supFrame

\* The line each except clause prints.
StopReport(at) ==
    IF at = "interrupt_print" THEN "Listener stopped by user"
                              ELSE "Listening stopped due to exception"

ReportStop ==
    /\ sup.pc \in {"interrupt_print", "fault_print"}
    /\ sup' = [sup EXCEPT !.pc = "close", !.out = Append(@, StopReport(sup.pc))]
    /\ UNCHANGED supFrame

\* Leaving the with block closes the subscriber.
CloseSubscriber ==
    /\ sup.pc = "close"
    /\ sup' = [sup EXCEPT !.pc = "return", !.subscriber = "closed"]
    /\ UNCHANGED supFrame

\* After the with block: start_listener returns True, main prints its last
\* line and ends.
ReturnFromListener ==
    /\ sup.pc = "return"
    /\ sup' = [sup EXCEPT !.pc = "exited",
                          !.out = IF entry = "main" THEN Append(@, "Listener stopped") ELSE @,
                          !.status = ReturnsNormally(entry)]
    /\ UNCHANGED supFrame

\* The statements outside the try block of result() that an interrupt can
\* reach, and those of them inside the with block.
OutsideTry ==
    {"setup", "subscribe", "with",
     "interrupt_cancel", "interrupt_print", "fault_cancel", "fault_print"}
InsideWith == {"interrupt_cancel", "interrupt_print", "fault_cancel", "fault_print"}

\* The interrupt arrives while the thread is at a statement no
\* except KeyboardInterrupt clause covers: the with block, when entered,
\* closes the subscriber, and no except Exception clause catches it.
KeyboardInterruptOutsideTry ==
    /\ sup.pc \in OutsideTry
    /\ sup' = [sup EXCEPT !.pc = "exited",
                          !.interrupted = TRUE,
                          !.subscriber = IF sup.pc \in InsideWith THEN "closed" ELSE @,
                          !.status = Uncaught]
    /\ UNCHANGED supFrame

ListenerNext ==
    \/ ValidateConfiguration
    \/ SetupSubscriber
    \/ Subscribe
    \/ EnterWith
    \/ ResultRaisesException
    \/ ResultRaisesKeyboardInterrupt
    \/ Cancel
    \/ ReportStop
    \/ CloseSubscriber
    \/ ReturnFromListener
    \/ KeyboardInterruptOutsideTry

ListenerSpec == ListenerInit /\ [][ListenerNext]_vars

\* ------------------------------------------------------------ bubble_sort
\* One call of bubble_sort(arr). Lists are objects: heap maps each list to
\* its elements, and the variables arr and result hold references.
MaxSortLen == 3
MaxSortValue == 2

SortValues == 0..MaxSortValue
SortInputs == UNION {[1..n -> SortValues] : n \in 0..MaxSortLen}

\* result = arr with no copy made: both names refer to the caller's list.
ListAlias(heap, ref) == [heap |-> heap, ref |-> ref]

\* arr.copy(): a new list with the same elements.
ListCopy(heap, ref) == [heap |-> [heap EXCEPT !["copy"] = heap[ref]], ref |-> "copy"]

\* result[j], result[j + 1] = result[j + 1], result[j], with j counted from 0.
Swap(list, j) == [list EXCEPT ![j + 1] = list[j + 2], ![j + 2] = list[j + 1]]

SortInit ==
    /\ PipelineIdle
    /\ env = [PROJECT_ID |-> TRUE, SUBSCRIPTION_ID |-> TRUE,
              GITHUB_TOKEN |-> TRUE, GITHUB_REPOSITORY |-> TRUE]
    /\ fmt = FmtIdle
    /\ pub = PubIdle
    /\ sup = SupIdle
    /\ sort \in [pc : {"call"}, input : SortInputs, heap : {[arr |-> <<>>, copy |-> <<>>]},
                 result : {"none"}, n : {0}, i : {0}, j : {0}, ret : {"none"}]

sortFrame == <<env, entry, run, stopReason, message, broker, pc, exc, acks, nacks,
               log, calls, posted, fmt, pub, sup>>

\* The caller's list is passed; n = len(arr) and result = arr.copy().
BubbleSortEnter ==
    /\ sort.pc = "call"
    /\ LET h == [arr |-> sort.input, copy |-> <<>>]
           c == ListCopy(h, "arr")
       IN  sort' = [sort EXCEPT !.pc = "outer", !.heap = c.heap, !.result = c.ref,
                                !.n = Len(sort.input), !.i = 0]
    /\ UNCHANGED sortFrame

\* for i in range(n): the next pass begins, or the loop is over.
OuterLoop ==
    /\ sort.pc = "outer"
    /\ sort' = IF sort.i < sort.n
               THEN [sort EXCEPT !.pc = "inner", !.j = 0]
               ELSE [sort EXCEPT !.pc = "done", !.ret = sort.result]
    /\ UNCHANGED sortFrame

\* for j in range(0, n - i - 1): compare the neighbours and swap them when
\* the left one is greater; after the last j the pass is over.
InnerLoop ==
    /\ sort.pc = "inner"
    /\ LET list == sort.heap[sort.result]
       IN  sort' = IF sort.j < sort.n - sort.i - 1
                   THEN [sort EXCEPT !.j = @ + 1,
                                     !.heap[sort.result] =
                                         IF list[sort.j + 1] > list[sort.j + 2]
                                         THEN Swap(list, sort.j) ELSE list]
                   ELSE [sort EXCEPT !.pc = "outer", !.i = @ + 1]
    /\ UNCHANGED sortFrame

SortNext == BubbleSortEnter \/ OuterLoop \/ InnerLoop

SortSpec == SortInit /\ [][SortNext]_vars

\* ------------------------------------------------------------ the claims
\* The handler invocation for m has ended (returned, or ended by an exception).
Ended(m) == pc[m] \in {"done", "raised"}

CountKind(entries, kind) ==
    Cardinality({i \in 1..Len(entries) : entries[i].kind = kind})

HasKind(entries, kind) == CountKind(entries, kind) > 0

Undecodable(m) == message[m].data.bytes \in {"invalid_utf8", "invalid_json"}

\* C1: a delivered message whose non-empty payload cannot be decoded as JSON
\* is acknowledged and never nacked, no exception leaves the handler, and
\* exactly one error is logged.
C1_DecodeErrorAcked ==
    \A m \in Msgs :
        (Ended(m) /\ Undecodable(m)) =>
            /\ pc[m] = "done"
            /\ acks[m] = 1
            /\ nacks[m] = 0
            /\ CountKind(log[m], "error") = 1

\* C2: ack() is called exactly once per delivery on every branch: never
\* twice, and once by the time the handler has ended.
C2_AckExactlyOnce ==
    \A m \in Msgs :
        /\ acks[m] <= 1
        /\ Ended(m) => acks[m] = 1

\* The publish attempt of the invocation for m ended in one of the failures
\* the publisher reports: a setting is missing, the repository cannot be
\* accessed, or the tracker rejects the request.
MissingSetting == ~env.GITHUB_TOKEN \/ ~env.GITHUB_REPOSITORY

Rejected(m) ==
    /\ calls[m] # <<>>
    /\ calls[m][Len(calls[m])].out.kind = "GithubException"

PublishFailed(m) ==
    /\ HasKind(log[m], "creating")
    /\ pc[m] \in {"ack", "done", "except", "raised"}
    /\ MissingSetting \/ Rejected(m)

\* The cause the failure was reported with.
FailureReason(m) ==
    IF ~env.GITHUB_TOKEN THEN "GITHUB_TOKEN not found in .env file"
    ELSE IF ~env.GITHUB_REPOSITORY THEN "GITHUB_REPOSITORY not found in .env file"
    ELSE calls[m][Len(calls[m])].out.reason

ReasonLogged(m) ==
    \E i \in 1..Len(log[m]) :
        /\ log[m][i].kind \in {"poster_error", "issue_failed"}
        /\ Contains(log[m][i].text, <<FailureReason(m)>>)

\* C3: when the publish attempt fails (rejected request, inaccessible
\* repository, missing credential or repository setting) the handler still
\* acknowledges, and the failure is logged with the reported reason.
C3_PublishFailureAcked ==
    \A m \in Msgs :
        /\ (entry = "start_listener" /\ PublishFailed(m)) =>
              /\ pc[m] \in {"ack", "done"}
              /\ ReasonLogged(m)
              /\ HasKind(log[m], "failed")
              /\ pc[m] = "done" => (acks[m] = 1 /\ broker[m] = "acked")
        /\ (entry = "main" /\ HasKind(log[m], "failed") /\ pc[m] = "done") =>
              (acks[m] = 1 /\ broker[m] = "acked")

C3_Witness ==
    \E m \in Msgs :
        /\ entry = "start_listener"
        /\ pc[m] = "done"
        /\ ~MissingSetting
        /\ Rejected(m)
        /\ calls[m][Len(calls[m])].op = "create_issue"
        /\ acks[m] = 1

\* ------------------------------------------------ a listener that stays up
\* The pipeline with no interrupt and no stream fault: every step that can
\* be taken is eventually taken (the broker keeps delivering, a handler
\* thread keeps running).
LiveInit == Init /\ env.PROJECT_ID /\ env.SUBSCRIPTION_ID

LiveNext ==
    \/ StartListener
    \/ \E m \in Msgs : Deliver(m)
    \/ \E m \in Msgs : CallbackDecode(m)
    \/ \E m \in Msgs : CallbackFormat(m)
    \/ \E m \in Msgs : CallbackPublish(m)
    \/ \E m \in Msgs : CallbackAck(m)
    \/ \E m \in Msgs : CallbackExcept(m)
    \/ \E m \in Msgs : ProcessDecode(m)
    \/ \E m \in Msgs : ProcessCreate(m)
    \/ \E m \in Msgs : ProcessAck(m)
    \/ \E m \in Msgs : ProcessExcept(m)
    \/ \E m \in Msgs : Redeliver(m)

\* Every step of the pipeline that concerns message m.
MessageStep(m) ==
    \/ Deliver(m)
    \/ CallbackDecode(m) \/ CallbackFormat(m) \/ CallbackPublish(m)
    \/ CallbackAck(m) \/ CallbackExcept(m)
    \/ ProcessDecode(m) \/ ProcessCreate(m) \/ ProcessAck(m) \/ ProcessExcept(m)
    \/ Redeliver(m)

LiveSpec ==
    /\ LiveInit
    /\ [][LiveNext]_vars
    /\ WF_vars(StartListener)
    /\ \A m \in Msgs : WF_vars(MessageStep(m))

\* C4: with a broker that redelivers what is not acknowledged, every logical
\* message is eventually acknowledged, whatever its payload and whatever the
\* publisher's outcome.
C4_EventuallyAcked == \A m \in Msgs : <>(broker[m] = "acked")

\* C5: an empty payload is logged as a decode failure (an error line, or
\* the notice that the message was empty), acknowledged, and the publisher is
\* not invoked.
C5_EmptyLoggedAndAcked ==
    \A m \in Msgs :
        (pc[m] = "done" /\ message[m].data = EmptyData) =>
            /\ HasKind(log[m], "error") \/ HasKind(log[m], "empty")
            /\ acks[m] = 1
            /\ calls[m] = <<>>

\* C6: the publisher never raises past its boundary: whatever a request to
\* the tracker fails with, post_github_issue returns.
C6_PublisherNeverRaises == pub.stage = "done" => pub.r.exc = NoExc

CountOp(cs, op) == Cardinality({i \in 1..Len(cs) : cs[i].op = op})

C8_NoErrorEscapesHandler ==
    /\ \A m \in Msgs : pc[m] # "raised"
    /\ \A m \in Msgs : (exc[m] # NoExc) => pc[m] \in {"except", "done"}
    /\ run = "stopped" => stopReason \in {"config", "interrupt", "fault"}
    /\ run # "stopped" => stopReason = "none"

C8_Witness ==
    \E m \in Msgs :
        /\ entry = "start_listener"
        /\ run = "listening"
        /\ pc[m] = "done"
        /\ exc[m].cls = "ConnectionError"

FmtData == fmt.message.data.value

FmtIsObject == FmtData.type = "object"

FmtHas(k) == FmtIsObject /\ HasKey(FmtData.items, k)

\* C9: formatting is total: whatever JSON document the payload decodes to, a
\* ticket is produced, and without a subject the title is the fallback.
C9_FormattingIsTotal ==
    fmt.stage = "done" =>
        /\ fmt.out.exc = NoExc
        /\ ~FmtHas("subject") => fmt.out.ticket.title = TitlePrefix \o <<"New Message">>

FmtSubject == ValueOf(FmtData.items, "subject")
FmtTimestamp == ValueOf(FmtData.items, "timestamp")
FmtBody == fmt.out.ticket.body
FmtAttributes == fmt.message.attributes

Bullet(a) == <<"* **", a[1], ":** ">> \o a[2] \o <<"\n">>

NeedsNoEscape(str) == \A i \in 1..Len(str) : EscapeChar(str[i]) = <<str[i]>>

Printed(line) == \E i \in 1..Len(sup.out) : sup.out[i] = line

\* C11: the configuration is validated before anything is started. While the
\* broker project id or the subscription id is missing, no subscriber exists
\* and no streaming pull is open, and once the first step has run the run has
\* ended with an error line and a failed status (False from start_listener,
\* 1 from main). With both ids present and the tracker token missing, the
\* warning is printed and the start is announced before any subscriber exists.
C11_ConfigValidatedFirst ==
    /\ ~(env.PROJECT_ID /\ env.SUBSCRIPTION_ID) =>
        /\ sup.subscriber = "none"
        /\ sup.pull = "none"
        /\ sup.pc \in {"validate", "exited"}
        /\ sup.pc = "exited" =>
            /\ sup.status = (IF entry = "main" THEN "1" ELSE "False")
            /\ sup.out = <<"ERROR: environment variable is required">>
    /\ (env.PROJECT_ID /\ env.SUBSCRIPTION_ID /\ ~env.GITHUB_TOKEN /\ sup.pc # "validate") =>
        /\ sup.out[1] = "WARNING: GITHUB_TOKEN"
        /\ Printed("Starting")
        /\ ~Printed("ERROR: environment variable is required")

\* The listener runs without a tracker token, the warning printed.
C11_Witness ==
    /\ env.PROJECT_ID /\ env.SUBSCRIPTION_ID /\ ~env.GITHUB_TOKEN
    /\ sup.pull = "active"
    /\ Printed("WARNING: GITHUB_TOKEN")

\* ---------------------------------------------------------------- C12
EndedNormally == sup.status \in {"0", "True"}

\* C12: the run ends with status 0 (True from start_listener) only after a
\* normal shutdown, an interrupt of a listener whose stream was established
\* and did not fail; it ends with another status when a required setting is
\* missing, when the subscription was not established, and when the failure
\* of the stream was raised by the streaming-pull future.
C12_ExitStatus ==
    sup.pc = "exited" =>
        /\ EndedNormally =>
            (env.PROJECT_ID /\ env.SUBSCRIPTION_ID /\ sup.pull # "none" /\ ~sup.faulted)
        /\ (~env.PROJECT_ID \/ ~env.SUBSCRIPTION_ID \/ sup.pull = "none" \/ sup.faulted)
              => ~EndedNormally

\* ---------------------------------------------------------------- C13
CountPrinted(line) == Cardinality({i \in 1..Len(sup.out) : sup.out[i] = line})

ListenerStarted == sup.pull # "none"

\* C13: a run whose listener started ends with exactly one stop reason
\* printed; when an interrupt arrived after the start, that reason is
\* "Listener stopped by user" and the status is the normal one; when the
\* stream failed and no interrupt arrived, it is "Listening stopped due to
\* exception".
C13_OneStopReason ==
    (sup.pc = "exited" /\ ListenerStarted) =>
        /\ CountPrinted("Listener stopped by user")
              + CountPrinted("Listening stopped due to exception") = 1
        /\ sup.interrupted =>
              (Printed("Listener stopped by user") /\ EndedNormally)
        /\ (sup.faulted /\ ~sup.interrupted) =>
              Printed("Listening stopped due to exception")

\* ---------------------------------------------------------------- C14
InProgress(m) == pc[m] \in {"decode", "format", "publish", "ack", "except"}

\* C14: cancellation is cooperative. No handler invocation begins once the
\* streaming pull is cancelled, and when the listener has cancelled the pull
\* and closed the subscriber no invocation is still in progress: each one
\* that had begun has run to its end and acknowledged its message.
C14_CooperativeCancellation ==
    (run = "stopped" /\ stopReason \in {"interrupt", "fault"}) =>
        \A m \in Msgs :
            /\ ~InProgress(m)
            /\ broker[m] \in {"pending", "acked"}

\* ---------------------------------------------------------------- C15
\* C15: the subscriber client is released on every exit path. When the run
\* has ended and a subscriber client was created, the client is closed,
\* whether the run ended by an interrupt, by a failure of the stream, or by
\* a failure or an interrupt while the subscription was being opened.
C15_SubscriberClosed ==
    (sup.pc = "exited" /\ sup.subscriber # "none") => sup.subscriber = "closed"

\* ---------------------------------------------------------------- C16
\* The payload of m decodes to a JSON object, which callback can format.
Formats(m) ==
    /\ message[m].data.bytes = "json"
    /\ message[m].data.value.type = "object"

ExpectedTitle(m) ==
    <<"PubSub Message: ">>
       \o (IF HasKey(message[m].data.value.items, "subject")
           THEN ValueOf(message[m].data.value.items, "subject")
           ELSE <<"New Message">>)

PastPublish(m) == pc[m] \in {"ack", "done", "except", "raised"}

\* The tracker answered the invocation's create_issue request with a ticket.
Created(m) ==
    /\ PastPublish(m)
    /\ calls[m] # <<>>
    /\ calls[m][Len(calls[m])].op = "create_issue"
    /\ calls[m][Len(calls[m])].out.kind = "ok"

\* C16: for a delivered message whose payload decodes and formats, callback
\* calls post_github_issue exactly once in the invocation, with the title and
\* the body formatted from that message, and not after the acknowledgement:
\* until the call nothing is published, requested or acknowledged, and any
\* create_issue request carries that title and body. When the tracker created
\* the ticket, the last line printed before message.ack() is the success line
\* with the ticket's number, and the acknowledgement follows.
C16_PublishedOnceBeforeAck ==
    \A m \in Msgs :
        (entry = "start_listener" /\ Formats(m)) =>
            /\ ~PastPublish(m) => (posted[m] = <<>> /\ calls[m] = <<>> /\ acks[m] = 0)
            /\ PastPublish(m) =>
                /\ Len(posted[m]) = 1
                /\ posted[m][1].title = ExpectedTitle(m)
                /\ posted[m][1].message
                      = FormatIssue(message[m].data.value, message[m].attributes).ticket.body
                /\ Contains(posted[m][1].message, Dumps(message[m].data.value))
                /\ CountOp(calls[m], "create_issue") <= 1
                /\ \A i \in 1..Len(calls[m]) :
                      calls[m][i].op = "create_issue" =>
                          /\ calls[m][i].req.title = posted[m][1].title
                          /\ calls[m][i].req.body = posted[m][1].message
            /\ Created(m) =>
                /\ pc[m] \in {"ack", "done"}
                /\ log[m][Len(log[m])]
                      = [kind |-> "success",
                         text |-> <<"Successfully created GitHub issue #">>,
                         num |-> calls[m][Len(calls[m])].out.number]
                /\ pc[m] = "ack" => acks[m] = 0
                /\ pc[m] = "done" => (acks[m] = 1 /\ broker[m] = "acked")

\* Ticket 42 was created for a message with a subject, and the message
\* acknowledged.
C16_Witness ==
    \E m \in Msgs :
        /\ entry = "start_listener"
        /\ Formats(m)
        /\ HasKey(message[m].data.value.items, "subject")
        /\ Created(m)
        /\ log[m][Len(log[m])].num = 42
        /\ pc[m] = "done"
        /\ acks[m] = 1

\* ---------------------------------------------------------------- C17
\* What the tracker answered to the requests of the invocation for m.
Answers(m) == [i \in 1..Len(calls[m]) |-> calls[m][i].out]

\* What an invocation for m has produced: the ticket handed to the
\* publisher, the acknowledgement, and what it printed and raised.
Outcome(m) ==
    [posted |-> posted[m], calls |-> calls[m], acks |-> acks[m], nacks |-> nacks[m],
     broker |-> broker[m], log |-> log[m], exc |-> exc[m]]

\* The outcome depends on nothing but the message and the tracker's answers.
OutcomeIsOwn ==
    \A m1, m2 \in Msgs :
        (message[m1] = message[m2] /\ pc[m1] = pc[m2] /\ Answers(m1) = Answers(m2))
            => Outcome(m1) = Outcome(m2)

\* A step in which the handler for m does not move leaves everything of m as
\* it was.
OthersUntouched ==
    \A m \in Msgs : pc'[m] = pc[m] => (Outcome(m)' = Outcome(m) /\ message'[m] = message[m])

\* C17: handler invocations for different messages share no mutable state.
\* In every interleaving, what an invocation publishes, prints and
\* acknowledges is determined by its own message and the tracker's answers
\* to its own requests, as when the message is processed alone, and no step
\* of one invocation changes the ticket, the acknowledgement or the broker
\* state of another message.
C17_NoSharedState == []OutcomeIsOwn /\ [][OthersUntouched]_vars

\* Two invocations are under way at once, one about to acknowledge while the
\* other has published a ticket and not yet acknowledged.
C17_Witness ==
    \E m1, m2 \in Msgs :
        /\ m1 # m2
        /\ pc[m1] = "ack"
        /\ pc[m2] = "ack"
        /\ posted[m1] # <<>>
        /\ posted[m2] # <<>>
        /\ posted[m1] # posted[m2]

\* ---------------------------------------------------------------- C18
IsSorted(list) == \A k \in 1..Len(list) - 1 : list[k] <= list[k + 1]

Occurrences(list, v) == Cardinality({k \in 1..Len(list) : list[k] = v})

IsPermutation(a, b) ==
    /\ Len(a) = Len(b)
    /\ \A v \in SortValues : Occurrences(a, v) = Occurrences(b, v)

\* The last c elements are where they are in the sorted list: they are in
\* ascending order and nothing before them is greater.
LastInPlace(list, c) ==
    \A k \in (Len(list) - c + 1)..Len(list) :
        \A l \in 1..k : list[l] <= list[k]

\* C18: bubble_sort leaves the list it was given unchanged and returns a new
\* list that is an ascending permutation of it, for every input (empty, one
\* element and duplicates included); the working list is always a
\* permutation of the input, and after the i-th pass of the outer loop its
\* last i elements are in their final sorted positions.
C18_SortedPermutation ==
    sort.pc \in {"outer", "inner", "done"} =>
        /\ sort.heap.arr = sort.input
        /\ sort.result # "arr"
        /\ IsPermutation(sort.heap[sort.result], sort.input)
        /\ LastInPlace(sort.heap[sort.result], IF sort.i < sort.n THEN sort.i ELSE sort.n)
        /\ sort.pc = "done" =>
            /\ sort.ret = sort.result
            /\ IsSorted(sort.heap[sort.ret])

\* A list with a duplicate that needed swaps has been sorted.
C18_Witness ==
    /\ sort.pc = "done"
    /\ sort.input = <<2, 2, 0>>
    /\ sort.heap[sort.ret] = <<0, 2, 2>>
    /\ sort.heap.arr = <<2, 2, 0>>

====
